---- MODULE Spec2Model ----
(***************************************************************************)
(* The quantitative pipeline of the trading dashboard                      *)
(* (src/shiny/trading/utils.py): calculate_indicators, calculate_backtest, *)
(* calculate_metrics and run_monte_carlo_simulation.                       *)
(*                                                                         *)
(* Numbers.  A float is modelled by the real number it stands for, kept as  *)
(* a pair <<n, d>>: d > 0 is the rational n/d in lowest terms, <<0, 0>> is  *)
(* NaN, <<1, 0>> and <<-1, 0>> are +inf and -inf.  Rounding is not         *)
(* modelled.                                                               *)
(*                                                                         *)
(* Logarithms.  A value of the log domain (Log_Returns, Strategy_Returns,  *)
(* their cumulative sums) is kept as the positive rational q it is the     *)
(* logarithm of: ln(q) is stored as q, a sum of logarithms as the product, *)
(* and np.exp gives q back.  Signal is 0.0 or 1.0, so Signal * ln(q) is    *)
(* ln(1) or ln(q) and stays in this form.                                  *)
(***************************************************************************)
EXTENDS Integers, Sequences, FiniteSets, TLC

\* ------------------------------------------------------------------ bounds
\* Longest price table of the pipeline specifications.
MaxLen == 4
\* Longest price history, most paths (S) and longest horizon (H) of the
\* Monte Carlo specification.
MaxHistory == 3
\* Most rows by which a series compared with df goes on after their common
\* prefix.
MaxTail == 1
MaxSimulations == 2
MaxHorizon == 2

\* Close prices, days between two bars, EMA spans, capitals, shocks.
Closes == {1, 2, 3}
DateGaps == {1, 2}
FirstDate == 1
Spans == {<<1, 2>>, <<2, 3>>, <<2, 2>>, <<3, 2>>}
Capitals == {-1, 0, 100}
Shocks == {-1, 1}
Nows == {50}

\* ------------------------------------------------------------- arithmetic
NaN == <<0, 0>>
PosInf == <<1, 0>>
NegInf == <<-1, 0>>

Abs(i) == IF i < 0 THEN -i ELSE i

RECURSIVE GCD(_, _)
GCD(a, b) == IF b = 0 THEN a ELSE GCD(b, a % b)

Sign(i) == IF i > 0 THEN 1 ELSE IF i < 0 THEN -1 ELSE 0

\* n/d with d # 0, in lowest terms with a positive denominator.
Rat(n, d) ==
    LET g == GCD(Abs(n), Abs(d))
        s == Sign(d)
    IN  <<(s * n) \div g, (s * d) \div g>>

Num(i) == <<i, 1>>
Zero == Num(0)
One == Num(1)

IsNaN(x) == x = NaN
IsInf(x) == x[2] = 0 /\ x[1] # 0
IsFinite(x) == x[2] > 0

\* IEEE addition: NaN propagates, inf + -inf is NaN.
Add(x, y) ==
    IF IsNaN(x) \/ IsNaN(y) THEN NaN
    ELSE IF IsInf(x) /\ IsInf(y) THEN (IF x = y THEN x ELSE NaN)
    ELSE IF IsInf(x) THEN x
    ELSE IF IsInf(y) THEN y
    ELSE Rat(x[1] * y[2] + y[1] * x[2], x[2] * y[2])

Neg(x) == <<-x[1], x[2]>>

Sub(x, y) == Add(x, Neg(y))

\* IEEE multiplication: NaN propagates, 0 * inf is NaN.
Mul(x, y) ==
    IF IsNaN(x) \/ IsNaN(y) THEN NaN
    ELSE IF IsInf(x) \/ IsInf(y)
         THEN (IF x[1] = 0 \/ y[1] = 0 THEN NaN
               ELSE <<Sign(x[1]) * Sign(y[1]), 0>>)
    ELSE Rat(x[1] * y[1], x[2] * y[2])

\* numpy float division: x/0 is +-inf, 0/0 and inf/inf are NaN.
Div(x, y) ==
    IF IsNaN(x) \/ IsNaN(y) THEN NaN
    ELSE IF IsInf(x) /\ IsInf(y) THEN NaN
    ELSE IF IsInf(x) THEN <<x[1] * (IF y[1] < 0 THEN -1 ELSE 1), 0>>
    ELSE IF IsInf(y) THEN Zero
    ELSE IF y[1] = 0 THEN <<Sign(x[1]), 0>>
    ELSE Rat(x[1] * y[2], x[2] * y[1])

\* x < y; false when either is NaN, as every float comparison is.
Less(x, y) ==
    IF IsNaN(x) \/ IsNaN(y) THEN FALSE
    ELSE IF IsInf(x) \/ IsInf(y)
         THEN (IF x = y THEN FALSE
               ELSE IF x = NegInf \/ y = PosInf THEN TRUE ELSE FALSE)
    ELSE x[1] * y[2] < y[1] * x[2]

Greater(x, y) == Less(y, x)

Leq(x, y) == ~IsNaN(x) /\ ~IsNaN(y) /\ ~Less(y, x)

\* Python's max(a, b): a unless b > a.
PyMax(a, b) == IF Greater(b, a) THEN b ELSE a

\* ----------------------------------------------------------- pandas Series
\* A Series is a sequence of numbers; a table a sequence of rows (records).
Column(df, name) == [i \in 1..Len(df) |-> df[i][name]]

\* Series.shift(1): row 0 is NaN, row t holds the value of row t-1.
Shift1(s) == [i \in 1..Len(s) |-> IF i = 1 THEN NaN ELSE s[i - 1]]

\* A diff whose first row is taken against 0 instead of being left NaN.
DiffFromZero(s) ==
    [i \in 1..Len(s) |-> IF i = 1 THEN Sub(s[i], Zero) ELSE Sub(s[i], s[i - 1])]

\* Series.diff(): s - s.shift(1).
Diff(s) == [i \in 1..Len(s) |-> Sub(s[i], Shift1(s)[i])]

\* Series.ewm(span=span, adjust=False).mean() on a Series without NaN:
\* alpha = 2/(span+1); the running value starts at s[0] and each further
\* observation cur replaces it by
\* (old_wt*weighted + new_wt*cur) / (old_wt + new_wt), with new_wt = alpha
\* and old_wt = 1 - alpha (old_wt is reset to 1 after every step).
Alpha(span) == Rat(2, span + 1)

RECURSIVE EwmPrefix(_, _, _)
EwmPrefix(s, span, t) ==
    IF t = 0 THEN <<>>
    ELSE IF t = 1 THEN <<s[1]>>
    ELSE LET prev == EwmPrefix(s, span, t - 1)
             new_wt == Alpha(span)
             old_wt == Sub(One, Alpha(span))
             weighted == Div(Add(Mul(old_wt, prev[t - 1]), Mul(new_wt, s[t])),
                             Add(old_wt, new_wt))
         IN  Append(prev, weighted)

\* ewm(span=span).mean() with pandas' default adjust=True: new_wt = 1 and
\* old_wt grows by new_wt after every step instead of being reset.
RECURSIVE EwmAdjustedPrefix(_, _, _)
EwmAdjustedPrefix(s, span, t) ==
    IF t = 0 THEN [out |-> <<>>, old_wt |-> One]
    ELSE IF t = 1 THEN [out |-> <<s[1]>>, old_wt |-> One]
    ELSE LET p == EwmAdjustedPrefix(s, span, t - 1)
             old_wt == Mul(p.old_wt, Sub(One, Alpha(span)))
             weighted == Div(Add(Mul(old_wt, p.out[t - 1]), s[t]),
                             Add(old_wt, One))
         IN  [out |-> Append(p.out, weighted), old_wt |-> Add(old_wt, One)]

EwmMeanAdjusted(s, span) == EwmAdjustedPrefix(s, span, Len(s)).out

\* ewm(span=..., adjust=False, min_periods=span).mean(): no value before
\* span observations.
EwmMeanMinPeriods(s, span) ==
    [i \in 1..Len(s) |-> IF i < span THEN NaN ELSE EwmPrefix(s, span, Len(s))[i]]

EwmMean(s, span) == EwmPrefix(s, span, Len(s))

\* np.where(a >= b, 1.0, 0.0)
WhereGreaterEq(a, b) ==
    [i \in 1..Len(a) |-> IF Leq(b[i], a[i]) THEN One ELSE Zero]

\* np.where(a > b, 1.0, 0.0)
WhereGreater(a, b) ==
    [i \in 1..Len(a) |-> IF Greater(a[i], b[i]) THEN One ELSE Zero]

\* ------------------------------------------------------------- log domain
\* np.log of a ratio of prices: ln(q) for q > 0, -inf for 0, NaN for NaN
\* and for negative numbers.
NpLog(x) == [ln |-> IF IsNaN(x) \/ x[1] < 0 THEN NaN ELSE x]

LogIsNaN(l) == IsNaN(l.ln)

\* np.exp
NpExp(l) == l.ln

LogZero == [ln |-> One]

\* ln(a) + ln(b) = ln(a*b)
LogAdd(a, b) == [ln |-> Mul(a.ln, b.ln)]

\* sig * l for a signal sig of 0.0, 1.0 or NaN.
SignalTimes(sig, l) ==
    IF IsNaN(sig) \/ LogIsNaN(l) THEN [ln |-> NaN]
    ELSE IF sig = One THEN l
    ELSE IF IsFinite(l.ln) /\ l.ln[1] > 0 THEN LogZero
    ELSE [ln |-> NaN]

\* Series.cumsum() (skipna=True): a NaN entry stays NaN in the result and
\* adds nothing to the running sum.
RECURSIVE CumSumPrefix(_, _)
CumSumPrefix(s, t) ==
    IF t = 0 THEN [out |-> <<>>, acc |-> LogZero]
    ELSE LET p == CumSumPrefix(s, t - 1)
         IN  IF LogIsNaN(s[t])
             THEN [out |-> Append(p.out, [ln |-> NaN]), acc |-> p.acc]
             ELSE [out |-> Append(p.out, LogAdd(p.acc, s[t])),
                   acc |-> LogAdd(p.acc, s[t])]

CumSum(s) == CumSumPrefix(s, Len(s)).out

\* Series.cummax() (skipna=True): the running maximum of the non-NaN
\* entries, NaN where the entry is NaN.
RECURSIVE CumMaxPrefix(_, _)
CumMaxPrefix(s, t) ==
    IF t = 0 THEN [out |-> <<>>, acc |-> NaN]
    ELSE LET p == CumMaxPrefix(s, t - 1)
             m == IF IsNaN(p.acc) \/ Greater(s[t], p.acc) THEN s[t] ELSE p.acc
         IN  IF IsNaN(s[t])
             THEN [out |-> Append(p.out, NaN), acc |-> p.acc]
             ELSE [out |-> Append(p.out, m), acc |-> m]

CumMax(s) == CumMaxPrefix(s, Len(s)).out

\* Series.min() (skipna=True): the least non-NaN entry, NaN when there is
\* none.
RECURSIVE MinPrefix(_, _)
MinPrefix(s, t) ==
    IF t = 0 THEN NaN
    ELSE LET m == MinPrefix(s, t - 1)
         IN  IF IsNaN(s[t]) THEN m
             ELSE IF IsNaN(m) \/ Less(s[t], m) THEN s[t] ELSE m

SeriesMin(s) == MinPrefix(s, Len(s))

\* ------------------------------------------------------------ the pipeline
\* calculate_indicators(df, short_window, long_window)
calculate_indicators(df, short_window, long_window) ==
    LET Close == [i \in 1..Len(df) |-> Num(df[i].Close)]
        EMA_Short == EwmMean(Close, short_window)
        EMA_Long == EwmMean(Close, long_window)
        Signal == WhereGreater(EMA_Short, EMA_Long)
        Position == Diff(Signal)
    IN  [i \in 1..Len(df) |->
            [Date |-> df[i].Date, Close |-> df[i].Close,
             EMA_Short |-> EMA_Short[i], EMA_Long |-> EMA_Long[i],
             Signal |-> Signal[i], Position |-> Position[i]]]

\* The signal applied to the row it was observed on (no shift).
StrategySignalNoLag(Signal) == Signal

\* The signal of the next row: shift(-1).
StrategySignalLookahead(Signal) ==
    [i \in 1..Len(Signal) |-> IF i = Len(Signal) THEN NaN ELSE Signal[i + 1]]

\* The signal of two rows before: shift(2).
StrategySignalShift2(Signal) == Shift1(Shift1(Signal))

\* The signal the backtest applies to each row: df['Signal'].shift(1)
StrategySignal(Signal) == Shift1(Signal)

\* calculate_backtest(df, capital): a copy of df with seven more columns.
calculate_backtest(df, capital) ==
    LET Close == [i \in 1..Len(df) |-> Num(df[i].Close)]
        Strategy_Signal == StrategySignal(Column(df, "Signal"))
        Log_Returns ==
            [i \in 1..Len(df) |-> NpLog(Div(Close[i], Shift1(Close)[i]))]
        Strategy_Returns ==
            [i \in 1..Len(df) |-> SignalTimes(Strategy_Signal[i], Log_Returns[i])]
        Cum_Benchmark == CumSum(Log_Returns)
        Cum_Strategy == CumSum(Strategy_Returns)
    IN  [i \in 1..Len(df) |->
            df[i] @@
            [Strategy_Signal |-> Strategy_Signal[i],
             Log_Returns |-> Log_Returns[i],
             Strategy_Returns |-> Strategy_Returns[i],
             Cum_Benchmark |-> NpExp(Cum_Benchmark[i]),
             Cum_Strategy |-> NpExp(Cum_Strategy[i]),
             Equity_Benchmark |-> Mul(NpExp(Cum_Benchmark[i]), Num(capital)),
             Equity_Strategy |-> Mul(NpExp(Cum_Strategy[i]), Num(capital))]]

\* days / 365.25
DaysToYears(days) == Rat(days * 4, 1461)

\* The floor of years: 0.01
MinYears == Rat(1, 100)

\* years without the floor.
YearsNoFloor(days) == DaysToYears(days)

\* years = max(days / 365.25, 0.01)
Years(days) == PyMax(DaysToYears(days), MinYears)

\* The maximum of the whole curve, Equity_Strategy.max(), on every row.
RollingMaxWholeCurve(equity) ==
    LET negated == [i \in 1..Len(equity) |-> Neg(equity[i])]
        top == Neg(SeriesMin(negated))
    IN  [i \in 1..Len(equity) |-> IF IsNaN(equity[i]) THEN NaN ELSE top]

\* The rolling maximum of the drawdown: Equity_Strategy.cummax()
RollingMax(equity) == CumMax(equity)

\* drawdown = Equity_Strategy / rolling_max - 1; max_dd = drawdown.min()
MaxDrawdown(equity) ==
    LET rolling_max == RollingMax(equity)
        drawdown ==
            [i \in 1..Len(equity) |-> Sub(Div(equity[i], rolling_max[i]), One)]
    IN  SeriesMin(drawdown)

NoMetrics ==
    [status |-> "none", final_value |-> NaN, total_return |-> NaN,
     bh_return |-> NaN, days |-> 0, years |-> NaN,
     cagr |-> [base |-> NaN, exponent |-> NaN], max_dd |-> NaN]

\* calculate_metrics(df, capital): the numbers the metrics table shows.  iloc[-1]
\* of an empty table raises IndexError.  cagr is base ** exponent, kept as the
\* pair (a power with a real exponent has no rational value).
calculate_metrics(df, capital) ==
    IF Len(df) = 0 THEN [NoMetrics EXCEPT !.status = "IndexError"]
    ELSE
    LET last == df[Len(df)]
        total_return == Sub(Div(last.Equity_Strategy, Num(capital)), One)
        bh_return == Sub(Div(last.Equity_Benchmark, Num(capital)), One)
        days == last.Date - df[1].Date
        years == Years(days)
        cagr == [base |-> Div(last.Equity_Strategy, Num(capital)),
                 exponent |-> Div(One, years)]
        max_dd == MaxDrawdown(Column(df, "Equity_Strategy"))
    IN  [status |-> "ok", final_value |-> last.Equity_Strategy,
         total_return |-> total_return, bh_return |-> bh_return,
         days |-> days, years |-> years, cagr |-> cagr, max_dd |-> max_dd]

\* What a cell of the metrics table shows for a value formatted with
\* f"{x:,.0f}" or f"{x:.2%}": "nan" and "inf" for the values that are no number.
Shown(x) ==
    IF IsNaN(x) THEN "nan"
    ELSE IF x = PosInf THEN "inf"
    ELSE IF x = NegInf THEN "-inf"
    ELSE "number"

\* The same for cagr = base ** exponent - 1.
ShownPower(c) ==
    IF IsNaN(c.base) \/ IsNaN(c.exponent) THEN "nan"
    ELSE IF IsInf(c.exponent) THEN "inf"
    ELSE IF Less(c.base, Zero) THEN "nan"
    ELSE IF c.base = PosInf THEN "inf"
    ELSE "number"

\* The five cells of the Value column of the table calculate_metrics returns.
MetricsTable(m) ==
    [Final_Value |-> Shown(m.final_value),
     Total_Return |-> Shown(m.total_return),
     Buy_Hold_Return |-> Shown(m.bh_return),
     CAGR |-> ShownPower(m.cagr),
     Max_Drawdown |-> Shown(m.max_dd)]

\* ------------------------------------------------------------- Monte Carlo
\* df['Close'].pct_change().dropna(): Close[t]/Close[t-1] - 1 for t >= 1.
PctChange(df) ==
    [i \in 1..(IF Len(df) = 0 THEN 0 ELSE Len(df) - 1) |->
        Sub(Div(Num(df[i + 1].Close), Num(df[i].Close)), One)]

RECURSIVE SumPrefix(_, _)
SumPrefix(s, t) == IF t = 0 THEN Zero ELSE Add(SumPrefix(s, t - 1), s[t])

\* Series.mean(): NaN for an empty Series.
Mean(s) == IF Len(s) = 0 THEN NaN ELSE Div(SumPrefix(s, Len(s)), Num(Len(s)))

\* The divisor of a population standard deviation: ddof=0.
StdDivisorPopulation(n) == n

\* The divisor Series.std() takes from the number of observations: ddof=1.
StdDivisor(n) == n - 1

\* The square of Series.std(): the sum of squared deviations over
\* StdDivisor(N), NaN when that divisor is not positive.
Variance(s) ==
    LET mu == Mean(s)
        sq == [i \in 1..Len(s) |-> Mul(Sub(s[i], mu), Sub(s[i], mu))]
    IN  IF StdDivisor(Len(s)) <= 0 THEN NaN
        ELSE Div(SumPrefix(sq, Len(s)), Num(StdDivisor(Len(s))))

\* A simulated price m * exp(e + z*sigma) is kept as [m, e, z]: m and e are
\* numbers, z an integer (the shocks are integers here).  z is kept 0 when
\* sigma is 0, so a price with e = 0 and z = 0 is the number m.  A NaN price
\* is [NaN, 0, 0].
Price(m, e, z) ==
    IF IsNaN(m) \/ IsNaN(e) THEN [m |-> NaN, e |-> Zero, z |-> 0]
    ELSE [m |-> m, e |-> e, z |-> z]

\* np.exp(drift + shock): the shock taken unscaled by sigma.
DailyReturnUnscaled(drift, sigma2, shock) ==
    IF IsNaN(sigma2) THEN Price(NaN, Zero, 0)
    ELSE Price(One, Add(drift, Num(shock)), 0)

\* np.exp(drift + sigma * shock), with sigma given by its square.
DailyReturn(drift, sigma2, shock) ==
    IF IsNaN(sigma2) THEN Price(NaN, Zero, 0)
    ELSE Price(One, drift, IF sigma2 = Zero THEN 0 ELSE shock)

PriceTimes(p, q) ==
    IF IsNaN(p.m) \/ IsNaN(q.m) THEN Price(NaN, Zero, 0)
    ELSE Price(Mul(p.m, q.m), Add(p.e, q.e), p.z + q.z)

\* The first row of the price matrix: price_paths[0] = start_price
FirstRow(start_price, simulations) ==
    [j \in 1..simulations |-> Price(start_price, Zero, 0)]

RECURSIVE PricePaths(_, _, _, _)
PricePaths(start_price, daily_returns, simulations, t) ==
    IF t = 1 THEN <<FirstRow(start_price, simulations)>>
    ELSE LET prev == PricePaths(start_price, daily_returns, simulations, t - 1)
         IN  Append(prev, [j \in 1..simulations |->
                              PriceTimes(prev[t - 1][j], daily_returns[t][j])])

\* The first Close of the history: iloc[0].
StartPriceFirst(df) == Num(df[1].Close)

\* start_price = df['Close'].iloc[-1]
StartPrice(df) == Num(df[Len(df)].Close)

NoSimulation ==
    [status |-> "none", simulations |-> 0, time_horizon |-> 0, mu |-> NaN,
     sigma2 |-> NaN, dates |-> <<>>, price_paths |-> <<>>, final_prices |-> <<>>]

\* run_monte_carlo_simulation(df, simulations, time_horizon) with the shocks
\* np.random.normal drew and the day datetime.now() fell on.
\* df['Close'].iloc[-1] of an empty table raises IndexError.
run_monte_carlo_simulation(df, simulations, time_horizon, random_shocks, now) ==
    IF Len(df) = 0
    THEN [NoSimulation EXCEPT !.status = "IndexError",
                              !.simulations = simulations,
                              !.time_horizon = time_horizon]
    ELSE
    LET returns == PctChange(df)
        mu == Mean(returns)
        sigma2 == Variance(returns)
        start_price == StartPrice(df)
        drift == Sub(mu, Mul(Rat(1, 2), sigma2))
        daily_returns ==
            [t \in 1..time_horizon |-> [j \in 1..simulations |->
                DailyReturn(drift, sigma2, random_shocks[t][j])]]
        price_paths ==
            PricePaths(start_price, daily_returns, simulations, time_horizon)
        dates == [i \in 1..time_horizon |-> now + (i - 1)]
    IN  [status |-> "ok", simulations |-> simulations,
         time_horizon |-> time_horizon, mu |-> mu, sigma2 |-> sigma2,
         dates |-> dates, price_paths |-> price_paths,
         final_prices |-> price_paths[time_horizon]]

\* ---------------------------------------------------------- the shop app
\* Bounds of the shop model: rows the tables may grow to, and the value
\* db_version may count to.
MaxLaptops == 6
MaxLeads == 4
MaxSales == 4
MaxVersion == 3

\* The browser sessions: server() runs once for each, with its own
\* user_session and db_version, on the one database file.
Sessions == {1, 2}

\* seed_data: the users table (no handler writes to it).
users ==
    {[username |-> "admin", password |-> "admin123", role |-> "admin"],
     [username |-> "inv", password |-> "inv123", role |-> "inventory"],
     [username |-> "sales", password |-> "sales123", role |-> "sales"]}

\* seed_data: the rows of dim_laptops, dim_leads and fact_sales, in id order
\* (AUTOINCREMENT: the row at position i has id i).  The columns no handler
\* reads back (specs, date_added, phone, interest_level, created_at,
\* sale_date) are left out.
\* The seeded laptops with the laptop of the seeded sale left 'Available'.
SeedLaptopsUnsold ==
    <<[brand |-> "Dell", model |-> "XPS 13", purchase_price |-> 800, status |-> "Available"],
      [brand |-> "Lenovo", model |-> "ThinkPad T14", purchase_price |-> 600, status |-> "Available"],
      [brand |-> "Apple", model |-> "MacBook Air M1", purchase_price |-> 750, status |-> "Available"],
      [brand |-> "HP", model |-> "Spectre x360", purchase_price |-> 900, status |-> "Available"],
      [brand |-> "Asus", model |-> "ZenBook", purchase_price |-> 650, status |-> "Available"]>>

SeedLaptops ==
    <<[brand |-> "Dell", model |-> "XPS 13", purchase_price |-> 800, status |-> "Available"],
      [brand |-> "Lenovo", model |-> "ThinkPad T14", purchase_price |-> 600, status |-> "Available"],
      [brand |-> "Apple", model |-> "MacBook Air M1", purchase_price |-> 750, status |-> "Available"],
      [brand |-> "HP", model |-> "Spectre x360", purchase_price |-> 900, status |-> "Available"],
      [brand |-> "Asus", model |-> "ZenBook", purchase_price |-> 650, status |-> "Sold"]>>

SeedLeads ==
    <<[name |-> "Alice Smith", status |-> "New"],
      [name |-> "Bob Jones", status |-> "Contacted"],
      [name |-> "Charlie Day", status |-> "Converted"]>>

SeedSales ==
    <<[laptop_id |-> 5, lead_id |-> 3, sale_price |-> 850, margin |-> 200]>>

\* Python's None, and a value that is not None, as a sequence of none or one.
None == <<>>
Some(x) == <<x>>

\* check_credentials matching the username alone.
CheckCredentialsAnyPassword(username, password) ==
    LET res == {r \in users : r.username = username}
    IN  IF res = {} THEN None ELSE Some((CHOOSE r \in res : TRUE).role)

\* check_credentials: SELECT role FROM users WHERE username=? AND password=?
\* (username is the primary key: at most one row), res[0] if res else None.
check_credentials(username, password) ==
    LET res == {r \in users : r.username = username /\ r.password = password}
    IN  IF res = {} THEN None ELSE Some((CHOOSE r \in res : TRUE).role)

\* The names of the tabs: the titles of tab_inventory, tab_leads, tab_sales
\* and tab_analytics.
tab_inventory == "Inventory"
tab_leads == "Leads / CRM"
tab_sales == "Point of Sale"
tab_analytics == "Analytics (OLAP)"

\* main_content with the sales role given the admin's tabs.
MainContentSalesAsAdmin(user) ==
    IF user = None THEN [screen |-> "login", tabs |-> <<>>]
    ELSE LET role == user[1].role
         IN  [screen |-> "dashboard",
              tabs |-> IF role \in {"admin", "sales"}
                          THEN <<tab_inventory, tab_leads, tab_sales, tab_analytics>>
                       ELSE IF role = "inventory" THEN <<tab_inventory>>
                       ELSE <<>>]

\* main_content: the login screen for no user, else the dashboard with the
\* tabs of the user's role.
main_content(user) ==
    IF user = None THEN [screen |-> "login", tabs |-> <<>>]
    ELSE LET role == user[1].role
         IN  [screen |-> "dashboard",
              tabs |-> IF role = "admin"
                          THEN <<tab_inventory, tab_leads, tab_sales, tab_analytics>>
                       ELSE IF role = "inventory" THEN <<tab_inventory>>
                       ELSE IF role = "sales" THEN <<tab_leads, tab_sales>>
                       ELSE <<>>]

\* ------------------------------------------------------------------ state
VARIABLES
    df,            \* the price table: a sequence of [Date, Close] rows
    short_ma,      \* the two EMA spans and the capital the caller passes
    long_ma,
    capital,
    stage,         \* how far the pipeline has run on df
    analyzed,      \* the table calculate_indicators returned
    backtest,      \* the table calculate_backtest returned
    metrics,       \* what calculate_metrics computed
    simulation,    \* what run_monte_carlo_simulation returned
    \* the shop app
    dim_laptops,       \* the three tables of shop.db that handlers write
    dim_leads,
    fact_sales,
    user_session,      \* of each session: None or the logged-in user
    db_version,        \* of each session: the refresh counter
    page,              \* of each session: what main_content rendered
    shop_notification, \* the last notification shown, and to which session
    shop_input,        \* the event handled last: its session, button and inputs
    sale_choices,      \* of each session: the laptop ids its sale select offers
    \* the booking app
    customers,             \* the customers and bookings tables
    bookings,
    data_trigger,          \* the refresh counter
    booking_notifications, \* what the last submission showed
    booking_input          \* the inputs of the last submission

tradevars == <<df, short_ma, long_ma, capital, stage, analyzed, backtest,
               metrics, simulation>>

shopvars == <<dim_laptops, dim_leads, fact_sales, user_session, db_version,
              page, shop_notification, shop_input, sale_choices>>

bookvars == <<customers, bookings, data_trigger, booking_notifications,
              booking_input>>

vars == <<tradevars, shopvars, bookvars>>

\* Tables of n bars: closes from Closes, dates FirstDate, FirstDate + gap, ...
\* for a gap of gapset (strictly increasing, no duplicates).
TablesOfLen(n, gapset) ==
    {[i \in 1..n |-> [Date |-> FirstDate + (i - 1) * g, Close |-> c[i]]] :
        c \in [1..n -> Closes], g \in gapset}

PriceTables(maxlen, gapset) == UNION {TablesOfLen(n, gapset) : n \in 0..maxlen}

\* Tables that carry a Signal column of 0.0 and 1.0 chosen freely.
SignalTables(maxlen) ==
    UNION {{[i \in 1..Len(t) |-> t[i] @@ [Signal |-> Num(sig[i])]] :
                sig \in [1..Len(t) -> {0, 1}]} : t \in PriceTables(maxlen, {1})}

\* The inputs a handler of the shop app reads, with the session and the
\* button of the event; an input the handler does not read is left blank.
\* The ids the selects send are kept as numbers, 0 for an empty selection.
NoInput ==
    [session |-> 0, btn |-> "", user_login |-> "", pass_login |-> "",
     inv_brand |-> "", inv_model |-> "", inv_price |-> 0, lead_name |-> "",
     update_lead_id |-> 0, update_lead_status |-> "",
     sale_laptop_id |-> 0, sale_lead_id |-> 0, sale_price |-> 0]

NoNotification == [session |-> 0, text |-> ""]

\* The shop app after init_db, seed_data and the start of every session.
ShopStart ==
    /\ dim_laptops = SeedLaptops
    /\ dim_leads = SeedLeads
    /\ fact_sales = SeedSales
    /\ user_session = [s \in Sessions |-> None]
    /\ db_version = [s \in Sessions |-> 0]
    /\ page = [s \in Sessions |-> main_content(None)]
    /\ shop_notification = NoNotification
    /\ shop_input = NoInput
    /\ sale_choices = [s \in Sessions |-> {}]

\* The inputs _handle_booking reads; booking_date and duration are None when
\* the field is empty, booking_time is the hour of the chosen "HH:00".
NoBookingInput ==
    [cust_name |-> "", cust_phone |-> "", booking_date |-> None,
     booking_time |-> 0, duration |-> None, midwife_select |-> 0]

\* The booking app after init_db left the rows seed in the bookings table.
BookingStart(seed) ==
    /\ customers = <<>>
    /\ bookings = seed
    /\ data_trigger = 0
    /\ booking_notifications = <<>>
    /\ booking_input = NoBookingInput

\* The trading dashboard with no table fetched.
TradingStart ==
    /\ df = <<>>
    /\ short_ma = 1 /\ long_ma = 1
    /\ capital = 0
    /\ stage = "none"
    /\ analyzed = <<>>
    /\ backtest = <<>>
    /\ metrics = NoMetrics
    /\ simulation = NoSimulation

Idle ==
    /\ ShopStart
    /\ BookingStart(<<>>)
    /\ analyzed = <<>>
    /\ backtest = <<>>
    /\ metrics = NoMetrics
    /\ simulation = NoSimulation

\* The table a caller passed, after the call: df = df.copy() binds the local
\* name to a copy, and the columns assigned afterwards go to the copy.
CallerTableAliased(arg, result) == result

CallerTable(arg, result) == arg

\* The pipeline on a fetched price table.
Init ==
    /\ df \in PriceTables(MaxLen, DateGaps)
    /\ \E w \in Spans : short_ma = w[1] /\ long_ma = w[2]
    /\ capital \in Capitals
    /\ stage = "fetched"
    /\ Idle

\* get_analyzed_data: calculate_indicators on the fetched table.
CalculateIndicators ==
    /\ stage = "fetched"
    /\ analyzed' = calculate_indicators(df, short_ma, long_ma)
    /\ df' = CallerTable(df, analyzed')
    /\ stage' = "analyzed"
    /\ UNCHANGED <<short_ma, long_ma, capital, backtest, metrics, simulation>>
    /\ UNCHANGED <<shopvars, bookvars>>

\* run_backtest_calc: calculate_backtest on the analyzed table.
CalculateBacktest ==
    /\ stage = "analyzed"
    /\ backtest' = calculate_backtest(analyzed, capital)
    /\ analyzed' = CallerTable(analyzed, backtest')
    /\ stage' = "backtested"
    /\ UNCHANGED <<df, short_ma, long_ma, capital, metrics, simulation>>
    /\ UNCHANGED <<shopvars, bookvars>>

\* backtest_metrics: calculate_metrics on the backtested table.
CalculateMetrics ==
    /\ stage = "backtested"
    /\ metrics' = calculate_metrics(backtest, capital)
    /\ stage' = "summarized"
    /\ UNCHANGED <<df, short_ma, long_ma, capital, analyzed, backtest, simulation>>
    /\ UNCHANGED <<shopvars, bookvars>>

\* monte_carlo_chart / distribution_chart: a simulation on the fetched table.
RunMonteCarlo ==
    /\ stage = "fetched"
    /\ \E simulations \in 1..MaxSimulations, time_horizon \in 1..MaxHorizon,
          now \in Nows :
         \E random_shocks \in [1..time_horizon -> [1..simulations -> Shocks]] :
            simulation' = run_monte_carlo_simulation(df, simulations,
                                                     time_horizon, random_shocks, now)
    /\ stage' = "simulated"
    /\ UNCHANGED <<df, short_ma, long_ma, capital, analyzed, backtest, metrics>>
    /\ UNCHANGED <<shopvars, bookvars>>

Next == CalculateIndicators \/ CalculateBacktest \/ CalculateMetrics

Spec == Init /\ [][Next]_vars

\* calculate_backtest and calculate_metrics called on any table with a Signal
\* column, not only on one calculate_indicators made.
InitBacktest ==
    /\ analyzed \in SignalTables(MaxLen)
    /\ df = [i \in 1..Len(analyzed) |->
                [Date |-> analyzed[i].Date, Close |-> analyzed[i].Close]]
    /\ short_ma = 1 /\ long_ma = 1
    /\ capital \in Capitals
    /\ stage = "analyzed"
    /\ backtest = <<>>
    /\ metrics = NoMetrics
    /\ simulation = NoSimulation
    /\ ShopStart
    /\ BookingStart(<<>>)

NextBacktest == CalculateBacktest \/ CalculateMetrics

SpecBacktest == InitBacktest /\ [][NextBacktest]_vars

\* run_monte_carlo_simulation on a price history.
InitMonteCarlo ==
    /\ df \in PriceTables(MaxHistory, {1})
    /\ short_ma = 1 /\ long_ma = 1
    /\ capital = 0
    /\ stage = "fetched"
    /\ Idle

NextMonteCarlo == RunMonteCarlo

SpecMonteCarlo == InitMonteCarlo /\ [][NextMonteCarlo]_vars

\* The pipeline up to the backtest, on price tables of consecutive days.
InitLookahead ==
    /\ df \in PriceTables(MaxLen, {1})
    /\ \E w \in Spans : short_ma = w[1] /\ long_ma = w[2]
    /\ capital = 100
    /\ stage = "fetched"
    /\ Idle

NextLookahead == CalculateIndicators \/ CalculateBacktest

SpecLookahead == InitLookahead /\ [][NextLookahead]_vars

\* ------------------------------------------------- the shop app's handlers
\* What the clients type and select.
LoginNames == {"admin", "inv", "sales", "guest"}
LoginPasswords == {"admin123", "inv123", "sales123", ""}
ShopLogins == {<<"admin", "admin123">>, <<"sales", "admin123">>}
LaptopInputs == {<<"Dell", "Latitude", 500>>, <<"", "Latitude", 500>>}
LeadNames == {"Dana Lee", ""}
LeadUpdates == {<<1, "Lost">>, <<2, "New">>, <<0, "Lost">>}
SaleInputs == {<<1, 1, 1000>>, <<5, 1, 1000>>, <<9, 1, 1000>>, <<1, 1, 0>>,
               <<0, 1, 1000>>, <<1, 0, 1000>>, <<2, 9, 1000>>}

\* trigger_update of session s, and the database left as it is.
trigger_update(s) == db_version' = [db_version EXCEPT ![s] = @ + 1]

\* The effect that updates the sale selects, run for session s when its
\* db_version has changed: if the Point of Sale tab is on the session's page
\* ("sale_laptop_id" in input), the laptop select is given the ids of the
\* laptops that are 'Available' now.
UpdateSaleSelects(s) ==
    sale_choices' =
        [sale_choices EXCEPT ![s] =
            IF \E k \in 1..Len(page[s].tabs) : page[s].tabs[k] = tab_sales
            THEN {id \in 1..Len(dim_laptops') : dim_laptops'[id].status = "Available"}
            ELSE @]

\* The sale select of a page just rendered: tab_sales builds it with
\* choices=[].
ResetSaleSelects(s) == sale_choices' = [sale_choices EXCEPT ![s] = {}]

Notify(s, text) == shop_notification' = [session |-> s, text |-> text]

\* main_content of session s re-rendered after the handler (it reads
\* user_session alone).
Render(s) == page' = [page EXCEPT ![s] = main_content(user_session'[s])]

\* The login effect: btn_login with user_login = u and pass_login = p.
Login(s, u, p) ==
    LET role == check_credentials(u, p)
    IN  /\ shop_input' = [NoInput EXCEPT !.session = s, !.btn = "btn_login",
                                         !.user_login = u, !.pass_login = p]
        /\ IF role # None /\ role[1] # ""
           THEN /\ user_session' = [user_session EXCEPT
                                       ![s] = Some([username |-> u, role |-> role[1]])]
                /\ ResetSaleSelects(s)
                /\ UNCHANGED shop_notification
           ELSE /\ Notify(s, "Invalid username or password")
                /\ UNCHANGED <<user_session, sale_choices>>
        /\ Render(s)
        /\ UNCHANGED <<dim_laptops, dim_leads, fact_sales, db_version>>
        /\ UNCHANGED <<tradevars, bookvars>>

\* The logout effect: btn_logout.
Logout(s) ==
    /\ shop_input' = [NoInput EXCEPT !.session = s, !.btn = "btn_logout"]
    /\ user_session' = [user_session EXCEPT ![s] = None]
    /\ Render(s)
    /\ ResetSaleSelects(s)
    /\ UNCHANGED <<dim_laptops, dim_leads, fact_sales, db_version, shop_notification>>
    /\ UNCHANGED <<tradevars, bookvars>>

\* btn_add_laptop.  (The table is let grow to MaxLaptops rows and db_version
\* count to MaxVersion, here and below.)
AddLaptop(s, brand, model, price) ==
    /\ Len(dim_laptops) < MaxLaptops
    /\ db_version[s] < MaxVersion
    /\ shop_input' = [NoInput EXCEPT !.session = s, !.btn = "btn_add_laptop",
                                     !.inv_brand = brand, !.inv_model = model,
                                     !.inv_price = price]
    /\ IF user_session[s] # None /\ brand # "" /\ model # ""
       THEN /\ dim_laptops' = Append(dim_laptops,
                                [brand |-> brand, model |-> model,
                                 purchase_price |-> price, status |-> "Available"])
            /\ Notify(s, "Laptop added!")
            /\ trigger_update(s)
            /\ UpdateSaleSelects(s)
       ELSE UNCHANGED <<dim_laptops, shop_notification, db_version, sale_choices>>
    /\ UNCHANGED <<dim_leads, fact_sales, user_session, page>>
    /\ UNCHANGED <<tradevars, bookvars>>

\* btn_add_lead
AddLead(s, name) ==
    /\ Len(dim_leads) < MaxLeads
    /\ db_version[s] < MaxVersion
    /\ shop_input' = [NoInput EXCEPT !.session = s, !.btn = "btn_add_lead",
                                     !.lead_name = name]
    /\ IF user_session[s] # None /\ name # ""
       THEN /\ dim_leads' = Append(dim_leads, [name |-> name, status |-> "New"])
            /\ Notify(s, "Lead added!")
            /\ trigger_update(s)
       ELSE UNCHANGED <<dim_leads, shop_notification, db_version>>
    /\ UNCHANGED <<dim_laptops, fact_sales, user_session, page>>
    /\ IF db_version' # db_version THEN UpdateSaleSelects(s)
       ELSE UNCHANGED sale_choices
    /\ UNCHANGED <<tradevars, bookvars>>

\* UPDATE tbl SET status = ? with no WHERE clause.
SetStatusEveryRow(tbl, id, status) ==
    [i \in 1..Len(tbl) |-> [tbl[i] EXCEPT !.status = status]]

\* UPDATE tbl SET status = ? WHERE id = ?
SetStatus(tbl, id, status) ==
    [i \in 1..Len(tbl) |-> IF i = id THEN [tbl[i] EXCEPT !.status = status]
                           ELSE tbl[i]]

\* btn_update_lead
UpdateLeadStatus(s, lid, status) ==
    /\ db_version[s] < MaxVersion
    /\ shop_input' = [NoInput EXCEPT !.session = s, !.btn = "btn_update_lead",
                                     !.update_lead_id = lid,
                                     !.update_lead_status = status]
    /\ IF lid # 0
       THEN /\ dim_leads' = SetStatus(dim_leads, lid, status)
            /\ Notify(s, "Lead status updated.")
            /\ trigger_update(s)
       ELSE UNCHANGED <<dim_leads, shop_notification, db_version>>
    /\ UNCHANGED <<dim_laptops, fact_sales, user_session, page>>
    /\ IF db_version' # db_version THEN UpdateSaleSelects(s)
       ELSE UNCHANGED sale_choices
    /\ UNCHANGED <<tradevars, bookvars>>

\* btn_record_sale
RecordSale(s, laptop_id, lead_id, price) ==
    /\ Len(fact_sales) < MaxSales
    /\ db_version[s] < MaxVersion
    /\ shop_input' = [NoInput EXCEPT !.session = s, !.btn = "btn_record_sale",
                                     !.sale_laptop_id = laptop_id,
                                     !.sale_lead_id = lead_id,
                                     !.sale_price = price]
    /\ IF /\ laptop_id # 0 /\ lead_id # 0 /\ price # 0
          /\ laptop_id \in 1..Len(dim_laptops)
       THEN LET cost == dim_laptops[laptop_id].purchase_price
                margin == price - cost
            IN  /\ fact_sales' = Append(fact_sales,
                                    [laptop_id |-> laptop_id, lead_id |-> lead_id,
                                     sale_price |-> price, margin |-> margin])
                /\ dim_laptops' = SetStatus(dim_laptops, laptop_id, "Sold")
                /\ dim_leads' = SetStatus(dim_leads, lead_id, "Converted")
                /\ Notify(s, "Sale recorded!")
                /\ trigger_update(s)
                /\ UpdateSaleSelects(s)
       ELSE UNCHANGED <<fact_sales, dim_laptops, dim_leads, shop_notification,
                        db_version, sale_choices>>
    /\ UNCHANGED <<user_session, page>>
    /\ UNCHANGED <<tradevars, bookvars>>

\* The shop app from its seeded database.
InitShop ==
    /\ TradingStart
    /\ ShopStart
    /\ BookingStart(<<>>)

\* Signing in and out, with every username and password typed.
NextShopAuth ==
    \E s \in Sessions :
        \/ \E u \in LoginNames, p \in LoginPasswords : Login(s, u, p)
        \/ Logout(s)

SpecShopAuth == InitShop /\ [][NextShopAuth]_vars

\* All six handlers, on whatever inputs the client of one session sends
\* (the other session stays idle).
NextShop ==
    \E s \in {1} :
        \/ \E c \in ShopLogins : Login(s, c[1], c[2])
        \/ Logout(s)
        \/ \E i \in LaptopInputs : AddLaptop(s, i[1], i[2], i[3])
        \/ \E name \in LeadNames : AddLead(s, name)
        \/ \E i \in LeadUpdates : UpdateLeadStatus(s, i[1], i[2])
        \/ \E i \in SaleInputs : RecordSale(s, i[1], i[2], i[3])

SpecShop == InitShop /\ [][NextShop]_vars

\* A tab is on the page of session s.
Shows(s, tab) == \E k \in 1..Len(page[s].tabs) : page[s].tabs[k] = tab

\* Update Status clicked on the Leads tab.
ClickUpdateLead(s, lid, status) ==
    /\ Shows(s, tab_leads)
    /\ UpdateLeadStatus(s, lid, status)

\* Complete Sale clicked on the Point of Sale tab, with a laptop picked from
\* what the session's select offers.
ClickCompleteSale(s, lead_id, price) ==
    /\ Shows(s, tab_sales)
    /\ \E laptop_id \in sale_choices[s] : RecordSale(s, laptop_id, lead_id, price)

\* Two sessions at the counter: signing in and out, updating a lead and
\* completing sales through the pages they are shown.
NextShopSales ==
    \E s \in Sessions :
        \/ \E c \in {<<"admin", "admin123">>, <<"sales", "sales123">>} :
              Login(s, c[1], c[2])
        \/ Logout(s)
        \/ ClickUpdateLead(s, 1, "Contacted")
        \/ ClickCompleteSale(s, 1, 1000)

SpecShopSales == InitShop /\ [][NextShopSales]_vars

\* ---------------------------------------------------------- the booking app
\* Bounds of the booking model: the past bookings init_db seeds (the code
\* seeds 20), and the bookings the handler may add.
MaxSeedBookings == 1
MaxBookings == 3

\* A datetime is kept as its hour count, date * 24 + hour: the ISO text
\* sqlite3 stores for it sorts as the time does.
DateTime(date, hour) == date * 24 + hour

\* timedelta(hours=4) of a seeded booking
SeedHours == 4

\* init_db: the ids of the seeded midwives.
Midwives == {1, 2, 3}

\* What the clients submit: the two midwives and the hours and durations
\* chosen, on one date, and the submissions with a field left empty.
SeedStarts == {DateTime(1, 6), DateTime(1, 9)}
ChosenMidwives == {1, 2}
BookingTimes == {8, 9, 10}
Durations == {1, 2}

FilledIn ==
    {[cust_name |-> "Ana", cust_phone |-> "0811", booking_date |-> Some(1),
      booking_time |-> t, duration |-> Some(d), midwife_select |-> m] :
        t \in BookingTimes, d \in Durations, m \in ChosenMidwives}

Submissions ==
    LET f == CHOOSE g \in FilledIn : TRUE
    IN  FilledIn \cup
        {[f EXCEPT !.cust_name = ""], [f EXCEPT !.cust_phone = ""],
         [f EXCEPT !.booking_date = None], [f EXCEPT !.duration = None]}

\* init_db: past bookings of any midwife, 'Completed', four hours long,
\* for customer ids that are in no table.
SeedBookings ==
    UNION {[1..n -> {[customer_id |-> 50, midwife_id |-> m, start_time |-> st,
                      end_time |-> st + SeedHours, status |-> "Completed"] :
                        m \in ChosenMidwives, st \in SeedStarts}] :
              n \in 0..MaxSeedBookings}

\* check_overlap with start and end bound in the order (start, end, start, end).
check_overlap_swapped(midwife_id, start, end) ==
    Cardinality({i \in 1..Len(bookings) :
        /\ bookings[i].midwife_id = midwife_id
        /\ bookings[i].status # "Cancelled"
        /\ \/ bookings[i].start_time < start /\ bookings[i].end_time > end
           \/ bookings[i].start_time >= start /\ bookings[i].end_time <= end}) > 0

\* check_overlap(midwife_id, start, end): count(*) > 0 of the bookings of
\* the midwife, not cancelled, with
\* (start_time < end AND end_time > start) OR
\* (start_time >= start AND end_time <= end).
check_overlap(midwife_id, start, end) ==
    Cardinality({i \in 1..Len(bookings) :
        /\ bookings[i].midwife_id = midwife_id
        /\ bookings[i].status # "Cancelled"
        /\ \/ bookings[i].start_time < end /\ bookings[i].end_time > start
           \/ bookings[i].start_time >= start /\ bookings[i].end_time <= end}) > 0

\* The row inserted with status 'Pending'.
NewBookingPending(cust_id, midwife_id, start_dt, end_dt) ==
    [customer_id |-> cust_id, midwife_id |-> midwife_id,
     start_time |-> start_dt, end_time |-> end_dt, status |-> "Pending"]

\* INSERT INTO bookings (customer_id, midwife_id, start_time, end_time,
\* status, created_at) VALUES (?, ?, ?, ?, 'Confirmed', ?)
NewBooking(cust_id, midwife_id, start_dt, end_dt) ==
    [customer_id |-> cust_id, midwife_id |-> midwife_id,
     start_time |-> start_dt, end_time |-> end_dt, status |-> "Confirmed"]

\* _handle_booking with the customer saved before the availability check.
handle_booking_customer_first(i) ==
    /\ data_trigger < MaxBookings
    /\ booking_input' = i
    /\ IF i.cust_name = "" \/ i.cust_phone = ""
       THEN /\ booking_notifications' = <<"Please fill in customer details">>
            /\ UNCHANGED <<customers, bookings, data_trigger>>
       ELSE IF i.booking_date = None \/ i.duration = None
       THEN /\ booking_notifications' = <<"Invalid Date/Time">>
            /\ UNCHANGED <<customers, bookings, data_trigger>>
       ELSE LET start_dt == DateTime(i.booking_date[1], i.booking_time)
                end_dt == start_dt + i.duration[1]
                midwife_id == i.midwife_select
                cust_id == Len(customers) + 1
            IN  /\ customers' = Append(customers,
                                   [name |-> i.cust_name, phone |-> i.cust_phone])
                /\ IF check_overlap(midwife_id, start_dt, end_dt)
                   THEN /\ booking_notifications' =
                              <<"Midwife is already booked for this slot!">>
                        /\ UNCHANGED <<bookings, data_trigger>>
                   ELSE /\ bookings' = Append(bookings,
                                          NewBooking(cust_id, midwife_id,
                                                     start_dt, end_dt))
                        /\ data_trigger' = data_trigger + 1
                        /\ booking_notifications' =
                              <<"Booking ID Created!", "WhatsApp sent",
                                "Email sent to Midwife", "Calendar Invite sent">>
    /\ UNCHANGED <<tradevars, shopvars>>

\* _handle_booking on the inputs i.  (data_trigger is let count to
\* MaxBookings.)
handle_booking(i) ==
    /\ data_trigger < MaxBookings
    /\ booking_input' = i
    /\ IF i.cust_name = "" \/ i.cust_phone = ""
       THEN /\ booking_notifications' = <<"Please fill in customer details">>
            /\ UNCHANGED <<customers, bookings, data_trigger>>
       ELSE IF i.booking_date = None \/ i.duration = None
       THEN /\ booking_notifications' = <<"Invalid Date/Time">>
            /\ UNCHANGED <<customers, bookings, data_trigger>>
       ELSE LET start_dt == DateTime(i.booking_date[1], i.booking_time)
                end_dt == start_dt + i.duration[1]
                midwife_id == i.midwife_select
                cust_id == Len(customers) + 1
            IN  IF check_overlap(midwife_id, start_dt, end_dt)
                THEN /\ booking_notifications' =
                           <<"Midwife is already booked for this slot!">>
                     /\ UNCHANGED <<customers, bookings, data_trigger>>
                ELSE /\ customers' = Append(customers,
                                        [name |-> i.cust_name, phone |-> i.cust_phone])
                     /\ bookings' = Append(bookings,
                                       NewBooking(cust_id, midwife_id,
                                                  start_dt, end_dt))
                     /\ data_trigger' = data_trigger + 1
                     /\ booking_notifications' =
                           <<"Booking ID Created!", "WhatsApp sent",
                             "Email sent to Midwife", "Calendar Invite sent">>
    /\ UNCHANGED <<tradevars, shopvars>>

InitBooking ==
    /\ TradingStart
    /\ ShopStart
    /\ \E seed \in SeedBookings : BookingStart(seed)

NextBooking == \E i \in Submissions : handle_booking(i)

SpecBooking == InitBooking /\ [][NextBooking]_vars

\* ------------------------------------------------------------------ claims
Analyzed == stage \in {"analyzed", "backtested", "summarized"}
Backtested == stage \in {"backtested", "summarized"}
Summarized == stage = "summarized"

\* C1: in the table calculate_backtest returns, Equity_Benchmark and
\* Equity_Strategy both equal capital at the first row.  (The code leaves NaN
\* there: cumsum keeps the NaN of the first row's return, and exp and the
\* product with capital keep it.)
C1_EquityStartsAtCapital ==
    (Backtested /\ Len(backtest) >= 1) =>
        /\ backtest[1].Equity_Benchmark = Num(capital)
        /\ backtest[1].Equity_Strategy = Num(capital)

\* The price ratio Close[t]/Close[t-1] of row t >= 2 (rows count from 1 here).
Ratio(tbl, t) == Rat(tbl[t].Close, tbl[t - 1].Close)

\* The product of the ratios of rows 2..t whose previous row has Signal 1:
\* exp of the sum of Signal[i-1] * ln(Close[i]/Close[i-1]) over those rows.
RECURSIVE HeldGrowth(_, _)
HeldGrowth(tbl, t) ==
    IF t <= 1 THEN One
    ELSE Mul(HeldGrowth(tbl, t - 1),
             IF tbl[t - 1].Signal = One THEN Ratio(tbl, t) ELSE One)

\* C2: the signal applied to row t is the signal of row t-1: for t >= 1,
\* Strategy_Signal[t] = Signal[t-1] and Strategy_Returns[t] =
\* Signal[t-1] * ln(Close[t]/Close[t-1]); row 0 holds no position (its
\* Strategy_Signal is null) and adds nothing to the cumulative sum: on every
\* row t >= 1 the cumulative strategy return is the sum over rows 1..t alone.
C2_LaggedSignal ==
    Backtested =>
        /\ Len(backtest) = Len(analyzed)
        /\ Len(backtest) >= 1 => IsNaN(backtest[1].Strategy_Signal)
        /\ \A t \in 2..Len(backtest) :
              /\ backtest[t].Strategy_Signal = analyzed[t - 1].Signal
              /\ backtest[t].Strategy_Returns.ln =
                    (IF analyzed[t - 1].Signal = One
                     THEN Ratio(analyzed, t) ELSE One)
              /\ backtest[t].Cum_Strategy = HeldGrowth(analyzed, t)
              /\ backtest[t].Equity_Strategy =
                    Mul(HeldGrowth(analyzed, t), Num(capital))

\* C2's case: a table whose first row already signals 1 and whose signal then
\* changes while the price moves.
C2_Witness ==
    /\ Backtested
    /\ Len(backtest) >= 3
    /\ analyzed[1].Signal = One
    /\ analyzed[2].Signal = Zero
    /\ analyzed[2].Close # analyzed[1].Close
    /\ analyzed[3].Close # analyzed[2].Close

\* calculate_indicators followed by calculate_backtest, with the spans and
\* the capital of the state.
Pipeline(d) == calculate_backtest(calculate_indicators(d, short_ma, long_ma), capital)

\* The series that agree with df on its first t rows and go on with up to
\* MaxTail rows of any closes.
AgreeOnFirst(t) ==
    {SubSeq(df, 1, t) \o [i \in 1..Len(tail) |->
                             [Date |-> df[t].Date + i, Close |-> tail[i].Close]] :
        tail \in PriceTables(MaxTail, {1})}

\* C3: no lookahead.  On rows 0..t and in every column, the table the pipeline
\* made of df is the table it makes of any other series that agrees with df on
\* rows 0..t, whatever follows row t in either: nothing, or rows of any closes.
C3_NoLookahead ==
    Backtested =>
        \A t \in 1..Len(df) : \A other \in AgreeOnFirst(t) :
            SubSeq(Pipeline(other), 1, t) = SubSeq(backtest, 1, t)

\* C3's case: a signal of 1 on the second row and a price that moves after it.
C3_Witness ==
    /\ Backtested
    /\ Len(backtest) >= 3
    /\ backtest[2].Signal = One
    /\ backtest[3].Signal = Zero
    /\ backtest[3].Close # backtest[2].Close

\* alpha*Close[t] + (1-alpha)*EMA[t-1] with alpha = 2/(window+1)
Smoothed(window, close, previous) ==
    Add(Mul(Rat(2, window + 1), Num(close)),
        Mul(Sub(One, Rat(2, window + 1)), previous))

\* C4: each EMA is the recursive smoothing EMA[0] = Close[0],
\* EMA[t] = alpha*Close[t] + (1-alpha)*EMA[t-1] with alpha = 2/(window+1), for
\* the short and for the long window independently.
C4_RecursiveSmoothing ==
    Analyzed =>
        /\ Len(analyzed) = Len(df)
        /\ Len(analyzed) >= 1 =>
              /\ analyzed[1].EMA_Short = Num(df[1].Close)
              /\ analyzed[1].EMA_Long = Num(df[1].Close)
        /\ \A t \in 2..Len(analyzed) :
              /\ analyzed[t].EMA_Short =
                    Smoothed(short_ma, df[t].Close, analyzed[t - 1].EMA_Short)
              /\ analyzed[t].EMA_Long =
                    Smoothed(long_ma, df[t].Close, analyzed[t - 1].EMA_Long)

\* C4's case: three rows or more of moving prices and two different windows.
C4_Witness ==
    /\ Analyzed
    /\ Len(analyzed) >= 3
    /\ short_ma # long_ma
    /\ df[2].Close # df[1].Close
    /\ df[3].Close # df[2].Close
    /\ analyzed[3].EMA_Short # analyzed[3].EMA_Long

ConstantPrices == \A i, j \in 1..Len(df) : df[i].Close = df[j].Close

\* C5: Signal[t] is 1 exactly when EMA_Short[t] > EMA_Long[t] and 0 otherwise
\* (a tie gives 0); for a constant price series both EMAs equal Close and
\* Signal is 0 on every row, for any pair of windows.
C5_SignalStrictlyGreater ==
    Analyzed =>
        /\ \A t \in 1..Len(analyzed) :
              /\ analyzed[t].Signal \in {Zero, One}
              /\ analyzed[t].Signal = One <=>
                    analyzed[t].EMA_Long[1] * analyzed[t].EMA_Short[2]
                        < analyzed[t].EMA_Short[1] * analyzed[t].EMA_Long[2]
              /\ analyzed[t].EMA_Short = analyzed[t].EMA_Long =>
                    analyzed[t].Signal = Zero
        /\ ConstantPrices =>
              \A t \in 1..Len(analyzed) :
                  /\ analyzed[t].EMA_Short = Num(df[t].Close)
                  /\ analyzed[t].EMA_Long = Num(df[t].Close)
                  /\ analyzed[t].Signal = Zero

\* C5's case: a constant series of three rows or more under different windows.
C5_Witness ==
    /\ Analyzed
    /\ Len(analyzed) >= 3
    /\ ConstantPrices
    /\ short_ma # long_ma

\* C6: Position[t] = Signal[t] - Signal[t-1] for t >= 1, one of -1, 0, +1
\* there; at row 0 it is null, not 0, so row 0 is neither a buy nor a sell.
C6_PositionChange ==
    Analyzed =>
        /\ Len(analyzed) >= 1 =>
              /\ IsNaN(analyzed[1].Position)
              /\ analyzed[1].Position \notin {Zero, One, Num(-1)}
        /\ \A t \in 2..Len(analyzed) :
              /\ analyzed[t].Position =
                    Num(analyzed[t].Signal[1] - analyzed[t - 1].Signal[1])
              /\ analyzed[t].Position \in {Num(-1), Zero, One}

\* C6's case: a buy on one row and a sell on a later one.
C6_Witness ==
    /\ Analyzed
    /\ \E t, u \in 2..Len(analyzed) :
          /\ t < u
          /\ analyzed[t].Position = One
          /\ analyzed[u].Position = Num(-1)

AlwaysBullish == \A t \in 1..Len(analyzed) : analyzed[t].Signal = One

Equity(t) == backtest[t].Equity_Strategy

\* The drawdown of row t >= 2 written out: Equity[t] over the largest equity
\* of rows 2..t, minus 1.
DrawdownAt(t) ==
    LET peak == CHOOSE m \in {Equity(i) : i \in 2..t} :
                    \A i \in 2..t : Leq(Equity(i), m)
    IN  Sub(Div(Equity(t), peak), One)

NeverDecreases == \A t \in 3..Len(backtest) : Leq(Equity(t - 1), Equity(t))

\* C8: for a backtest table of at least 2 rows made with capital > 0, the max
\* drawdown of calculate_metrics is the minimum over t of
\* Equity_Strategy[t] / running maximum of Equity_Strategy[0..t] - 1, it is
\* non-positive, and it is exactly 0 when the equity curve never decreases.
C8_MaxDrawdownNonPositive ==
    (Summarized /\ Len(backtest) >= 2 /\ capital > 0) =>
        /\ IsFinite(metrics.max_dd)
        /\ Leq(metrics.max_dd, Zero)
        /\ \E t \in 2..Len(backtest) : metrics.max_dd = DrawdownAt(t)
        /\ \A t \in 2..Len(backtest) : Leq(metrics.max_dd, DrawdownAt(t))
        /\ NeverDecreases => metrics.max_dd = Zero

\* C8's case: a positive capital and an equity curve that rises and then
\* falls, so that there is a drawdown, after which it recovers in part.
C8_Witness ==
    /\ Summarized
    /\ capital > 0
    /\ Len(backtest) >= 4
    /\ Less(Equity(2), Equity(3))
    /\ Less(Equity(4), Equity(3))
    /\ Less(metrics.max_dd, Zero)

\* C9: years = max(days/365.25, 0.01) with days the days between the first and
\* the last Date: years is never below 0.01, so the exponent 1/years of the
\* CAGR is a finite number of at most 100, and years is days/365.25 whenever
\* days >= 4.
C9_YearsFloor ==
    (Summarized /\ metrics.status = "ok") =>
        /\ metrics.days = backtest[Len(backtest)].Date - backtest[1].Date
        /\ IsFinite(metrics.years)
        /\ metrics.years[1] * 100 >= metrics.years[2]
        /\ metrics.years[1] * 1461 >= metrics.days * 4 * metrics.years[2]
        /\ \/ metrics.years = Rat(1, 100)
           \/ metrics.years[1] * 1461 = metrics.days * 4 * metrics.years[2]
        /\ IsFinite(metrics.cagr.exponent)
        /\ Leq(metrics.cagr.exponent, Num(100))
        /\ Mul(metrics.cagr.exponent, metrics.years) = One
        /\ metrics.days >= 4 =>
              metrics.years[1] * 1461 = metrics.days * 4 * metrics.years[2]

\* C9's case: a table of several rows spanning fewer than 4 days, where the
\* floor decides.
C9_Witness ==
    /\ Summarized
    /\ metrics.status = "ok"
    /\ Len(backtest) >= 2
    /\ metrics.days < 4
    /\ metrics.years = Rat(1, 100)

\* C10: run_monte_carlo_simulation(df, S, H) with S >= 1 and H >= 1, on a
\* history with a last Close, returns H dates, an H-by-S matrix whose row 0 is
\* the last observed Close in every path, and final_prices equal to row H-1;
\* with S = 1 and H = 1 the single path holds the starting price alone.
C10_SimulationShape ==
    (stage = "simulated" /\ Len(df) >= 1) =>
        LET S == simulation.simulations
            H == simulation.time_horizon
            last_close == [m |-> Num(df[Len(df)].Close), e |-> Zero, z |-> 0]
        IN  /\ simulation.status = "ok"
            /\ S >= 1 /\ H >= 1
            /\ Len(simulation.dates) = H
            /\ Len(simulation.price_paths) = H
            /\ \A t \in 1..H : Len(simulation.price_paths[t]) = S
            /\ \A j \in 1..S : simulation.price_paths[1][j] = last_close
            /\ Len(simulation.final_prices) = S
            /\ simulation.final_prices = simulation.price_paths[H]
            /\ (S = 1 /\ H = 1) =>
                  /\ simulation.price_paths = <<<<last_close>>>>
                  /\ simulation.final_prices = <<last_close>>

\* C10's case: several paths over several days on a history whose prices
\* moved, with a path that ends away from the starting price.
C10_Witness ==
    /\ stage = "simulated"
    /\ simulation.status = "ok"
    /\ simulation.simulations >= 2
    /\ simulation.time_horizon >= 2
    /\ df[1].Close # df[Len(df)].Close
    /\ \E j \in 1..simulation.simulations :
          simulation.final_prices[j] # simulation.price_paths[1][j]

\* A price that is the plain number x: x * exp(0).
Plain(x) == [m |-> x, e |-> Zero, z |-> 0]

\* C11: when the historical returns have mu = 0 and sigma = 0 (a constant
\* price history of at least three rows), every simulated path holds the
\* starting price at every step, whatever shocks were drawn, and all
\* final_prices are that price.
C11_ConstantHistoryConstantPaths ==
    /\ (stage = "simulated" /\ ConstantPrices /\ Len(df) >= 3) =>
          (simulation.mu = Zero /\ simulation.sigma2 = Zero)
    /\ (stage = "simulated" /\ simulation.status = "ok"
            /\ simulation.mu = Zero /\ simulation.sigma2 = Zero) =>
          /\ \A t \in 1..simulation.time_horizon :
                \A j \in 1..simulation.simulations :
                   simulation.price_paths[t][j] = Plain(Num(df[Len(df)].Close))
          /\ \A j \in 1..simulation.simulations :
                simulation.final_prices[j] = Plain(Num(df[Len(df)].Close))

\* C11's case: a constant history simulated over several days in several
\* paths.
C11_Witness ==
    /\ stage = "simulated"
    /\ simulation.status = "ok"
    /\ Len(df) >= 3
    /\ simulation.mu = Zero /\ simulation.sigma2 = Zero
    /\ simulation.time_horizon >= 2
    /\ simulation.simulations >= 2

\* A simulated price is a number: not NaN.
IsPriceNaN(p) == IsNaN(p.m)

\* C12: run_monte_carlo_simulation on a series of fewer than 2 rows fails
\* with an error and never returns a result whose paths contain NaN.  (The
\* code has no length check: on one row it returns paths that are NaN after
\* the first day.)
C12_FewRowsFail ==
    (stage = "simulated" /\ Len(df) < 2) =>
        /\ simulation.status # "ok"
        /\ \A t \in 1..Len(simulation.price_paths) :
              \A j \in 1..Len(simulation.price_paths[t]) :
                 ~IsPriceNaN(simulation.price_paths[t][j])

\* The sum of (r[i] - r[j])^2 over the pairs i < j <= n.
RECURSIVE PairSum(_, _)
PairSum(r, n) ==
    IF n <= 1 THEN Zero
    ELSE Add(PairSum(r, n - 1),
             SumPrefix([i \in 1..(n - 1) |->
                           Mul(Sub(r[i], r[n]), Sub(r[i], r[n]))], n - 1))

C14_EmptyAndSingleRow ==
    Analyzed =>
        /\ Len(df) = 0 => analyzed = <<>>
        /\ Len(df) = 1 =>
              /\ Len(analyzed) = 1
              /\ analyzed[1].Date = df[1].Date
              /\ analyzed[1].EMA_Short = Num(df[1].Close)
              /\ analyzed[1].EMA_Long = Num(df[1].Close)
              /\ analyzed[1].Signal = Zero

\* C14's case: a single-row series analysed with two different windows.
C14_Witness ==
    /\ Analyzed
    /\ Len(df) = 1
    /\ Len(analyzed) = 1
    /\ short_ma # long_ma

\* The Date column of a table.
Dates(tbl) == [i \in 1..Len(tbl) |-> tbl[i].Date]

C16_MetricsFiniteOrFailure ==
    Summarized =>
        \/ metrics.status # "ok"
        \/ \A cell \in {"Final_Value", "Total_Return", "Buy_Hold_Return",
                        "CAGR", "Max_Drawdown"} :
              MetricsTable(metrics)[cell] = "number"

\* The four buttons whose handlers write to the database.
MutatingButtons ==
    {"btn_add_laptop", "btn_add_lead", "btn_update_lead", "btn_record_sale"}

\* C18: each of the four mutating actions (add laptop, add lead, update lead
\* status, record sale) leaves every table and db_version unchanged when the
\* session it comes from has no user logged in, after a logout too.  (The
\* handlers of btn_update_lead and btn_record_sale do not look at
\* user_session.)
C18_WritesNeedLogin ==
    [][(/\ shop_input'.btn \in MutatingButtons
        /\ user_session[shop_input'.session] = None) =>
            /\ dim_laptops' = dim_laptops
            /\ dim_leads' = dim_leads
            /\ fact_sales' = fact_sales
            /\ db_version' = db_version]_vars

\* The users rows that match a username and a password.
Matching(u, p) == {r \in users : r.username = u /\ r.password = p}

\* C19: user_session starts as None; Sign In sets it to the entered username
\* and the role of the users row that matches both the entered username and
\* password, and only when there is such a row; a failed Sign In leaves it
\* unchanged and shows an error; Logout always sets it to None.  No handler
\* touches another session's user_session.
C19_SignInAndOut ==
    /\ \A s \in Sessions : user_session[s] = None
    /\ [][LET s == shop_input'.session
              u == shop_input'.user_login
              p == shop_input'.pass_login
          IN  /\ shop_input'.btn = "btn_login" =>
                    /\ Matching(u, p) # {} =>
                          \A r \in Matching(u, p) :
                             user_session'[s] =
                                <<[username |-> u, role |-> r.role]>>
                    /\ Matching(u, p) = {} =>
                          /\ user_session'[s] = user_session[s]
                          /\ shop_notification' =
                                [session |-> s,
                                 text |-> "Invalid username or password"]
              /\ shop_input'.btn = "btn_logout" => user_session'[s] = None
              /\ \A t \in Sessions \ {s} : user_session'[t] = user_session[t]]_vars

\* C19's case: a session logged out while another is logged in, after a
\* Sign In failed.
C19_Witness ==
    /\ shop_input.btn = "btn_logout"
    /\ user_session[shop_input.session] = None
    /\ \E t \in Sessions : user_session[t] # None
    /\ shop_notification.text = "Invalid username or password"

\* C20: main_content shows the login screen exactly when user_session is
\* None; otherwise the tabs depend on the role alone: admin sees Inventory,
\* Leads, Point of Sale and Analytics, inventory sees Inventory only, sales
\* sees Leads and Point of Sale only; only admin sees Analytics.
C20_TabsByRole ==
    \A s \in Sessions :
        /\ page[s].screen = "login" <=> user_session[s] = None
        /\ user_session[s] = None => page[s].tabs = <<>>
        /\ user_session[s] # None =>
              LET role == user_session[s][1].role
              IN  /\ page[s].screen = "dashboard"
                  /\ role \in {"admin", "inventory", "sales"}
                  /\ role = "admin" =>
                        page[s].tabs = <<"Inventory", "Leads / CRM",
                                         "Point of Sale", "Analytics (OLAP)">>
                  /\ role = "inventory" => page[s].tabs = <<"Inventory">>
                  /\ role = "sales" =>
                        page[s].tabs = <<"Leads / CRM", "Point of Sale">>
                  /\ (\E i \in 1..Len(page[s].tabs) :
                         page[s].tabs[i] = "Analytics (OLAP)") => role = "admin"

\* C20's case: one session on the sales dashboard, another on the admin's.
C20_Witness ==
    \E s, t \in Sessions :
        /\ user_session[s] # None /\ user_session[s][1].role = "sales"
        /\ user_session[t] # None /\ user_session[t][1].role = "admin"
        /\ page[s].screen = "dashboard"
        /\ page[t].screen = "dashboard"

\* Two bookings overlap when each starts before the other ends.
Overlap(a, b) == a.start_time < b.end_time /\ b.start_time < a.end_time

\* The slot the last submission asked for.
Submitted ==
    LET start_dt == DateTime(booking_input.booking_date[1], booking_input.booking_time)
    IN  [midwife_id |-> booking_input.midwife_select, start_time |-> start_dt,
         end_time |-> start_dt + booking_input.duration[1]]

\* C17: no booking _handle_booking created (status Confirmed) overlaps a
\* booking of the same midwife, not cancelled, that was in the table before
\* it; and a submission is turned down as a double booking only when such a
\* booking overlaps it: not for a booking that ends when it starts or starts
\* when it ends, and not for a booking of another midwife.
C17_NoDoubleBooking ==
    /\ \A j \in 1..Len(bookings) :
          bookings[j].status = "Confirmed" =>
             \A i \in 1..(j - 1) :
                (/\ bookings[i].midwife_id = bookings[j].midwife_id
                 /\ bookings[i].status # "Cancelled") =>
                    ~Overlap(bookings[i], bookings[j])
    /\ booking_notifications = <<"Midwife is already booked for this slot!">> =>
          \E i \in 1..Len(bookings) :
             /\ bookings[i].midwife_id = Submitted.midwife_id
             /\ bookings[i].status # "Cancelled"
             /\ Overlap(bookings[i], Submitted)

\* C17's case: a midwife with two bookings back to back, made while another
\* midwife had a booking over the same hours.
C17_Witness ==
    \E i, j, k \in 1..Len(bookings) :
        /\ i < j
        /\ bookings[i].status = "Confirmed" /\ bookings[j].status = "Confirmed"
        /\ bookings[i].midwife_id = bookings[j].midwife_id
        /\ \/ bookings[i].end_time = bookings[j].start_time
           \/ bookings[j].end_time = bookings[i].start_time
        /\ k < j
        /\ bookings[k].midwife_id # bookings[j].midwife_id
        /\ Overlap(bookings[k], bookings[j])

\* The last submission's inputs were turned down: a customer field empty, a
\* date or duration that does not parse, or a slot check_overlap finds taken
\* in the table as it is.
Rejects(i) ==
    \/ i.cust_name = "" \/ i.cust_phone = ""
    \/ i.booking_date = None \/ i.duration = None
    \/ check_overlap(i.midwife_select,
                     DateTime(i.booking_date[1], i.booking_time),
                     DateTime(i.booking_date[1], i.booking_time) + i.duration[1])

\* C21: a rejected booking submission changes nothing: when the customer name
\* or phone is empty, when the date/time cannot be parsed, or when
\* check_overlap reports a conflict, no customers row and no bookings row is
\* inserted and data_trigger keeps its value.
C21_RejectedChangesNothing ==
    [][Rejects(booking_input') =>
          /\ customers' = customers
          /\ bookings' = bookings
          /\ data_trigger' = data_trigger
          /\ Len(booking_notifications') = 1]_vars

\* C21's case: a submission was turned down as a double booking after a
\* booking had been made.
C21_Witness ==
    /\ booking_notifications = <<"Midwife is already booked for this slot!">>
    /\ data_trigger >= 1
    /\ Len(customers) = data_trigger

\* C22: an accepted booking submission inserts exactly one customers row and
\* exactly one bookings row; the booking has status 'Confirmed', the selected
\* midwife, the id of the customers row just inserted as customer_id, and
\* end_time = start_time + duration hours; data_trigger goes up by exactly 1.
C22_AcceptedInsertsOne ==
    [][LET i == booking_input'
       IN  ~Rejects(i) =>
              /\ Len(customers') = Len(customers) + 1
              /\ SubSeq(customers', 1, Len(customers)) = customers
              /\ customers'[Len(customers')] =
                    [name |-> i.cust_name, phone |-> i.cust_phone]
              /\ Len(bookings') = Len(bookings) + 1
              /\ SubSeq(bookings', 1, Len(bookings)) = bookings
              /\ LET b == bookings'[Len(bookings')]
                 IN  /\ b.status = "Confirmed"
                     /\ b.midwife_id = i.midwife_select
                     /\ b.customer_id = Len(customers')
                     /\ b.start_time = i.booking_date[1] * 24 + i.booking_time
                     /\ b.end_time = b.start_time + i.duration[1]
              /\ data_trigger' = data_trigger + 1]_vars

\* C22's case: a second booking was accepted, for another customer row than
\* the first.
C22_Witness ==
    /\ Len(booking_notifications) = 4
    /\ data_trigger = 2
    /\ Len(customers) = 2
    /\ bookings[Len(bookings)].customer_id = 2
    /\ bookings[Len(bookings)].status = "Confirmed"

\* A table with the status of row id replaced and nothing else touched; the
\* table itself when it has no such row.
WithStatus(tbl, id, status) ==
    [i \in 1..Len(tbl) |->
        IF i = id
        THEN [f \in DOMAIN tbl[i] |-> IF f = "status" THEN status ELSE tbl[i][f]]
        ELSE tbl[i]]

C24_SoldAtMostOnce ==
    [][Len(fact_sales') > Len(fact_sales) =>
          LET sale == fact_sales'[Len(fact_sales')]
          IN  /\ dim_laptops[sale.laptop_id].status = "Available"
              /\ \A i \in 1..Len(fact_sales) :
                    fact_sales[i].laptop_id # sale.laptop_id]_vars

\* Every laptop a fact_sales row names is in dim_laptops with status 'Sold'.
SoldLaptopsAreSold ==
    \A i \in 1..Len(fact_sales) :
        /\ fact_sales[i].laptop_id \in 1..Len(dim_laptops)
        /\ dim_laptops[fact_sales[i].laptop_id].status = "Sold"

\* C25: from the seeded database on, every laptop referenced by a fact_sales
\* row has status 'Sold' in every reachable state, and no step takes a
\* laptop's status from 'Sold' back to 'Available' (or removes the laptop).
C25_SoldStaysSold ==
    /\ []SoldLaptopsAreSold
    /\ [][/\ Len(dim_laptops') >= Len(dim_laptops)
          /\ \A id \in 1..Len(dim_laptops) :
                dim_laptops[id].status = "Sold" =>
                   dim_laptops'[id].status = "Sold"]_vars

\* C25's case: a laptop sold through Complete Sale, after a laptop was added
\* to the inventory.
C25_Witness ==
    /\ Len(fact_sales) >= 2
    /\ Len(dim_laptops) > Len(SeedLaptops)
    /\ dim_laptops[fact_sales[Len(fact_sales)].laptop_id].status = "Sold"
    /\ \E id \in 1..Len(dim_laptops) : dim_laptops[id].status = "Available"

====
